---------------------------- MODULE Spec2Model ----------------------------
(***************************************************************************)
(* bitcoin-block-finder: the sequential scan of find_block (src/main.rs)   *)
(* over the bytes of blk00000.dat, with the decoders of src/util/types.rs  *)
(* (BlockInfo, Block, BlockHeader).                                        *)
(*                                                                         *)
(* Bytes are integers 0..255 and a Vec<u8> is a sequence whose last        *)
(* element is the one Vec::pop removes.  A hexadecimal String is a         *)
(* sequence of one-character strings.  TLC's integers are 32-bit signed,   *)
(* so the inputs keep the most significant byte of every 4-byte field      *)
(* below 128, and the one u32 value that can exceed that range (the        *)
(* wrapped payload count) is kept as two 16-bit limbs.                     *)
(***************************************************************************)
EXTENDS Naturals, Integers, Sequences, FiniteSets, Bags, TLC

VARIABLES
    file,          \* the bytes read from blk00000.dat, as read (never changed)
    raw_bytes,     \* the Vec<u8> find_block reverses and then pops from
    height,        \* the requested height (Context::block_at_height)
    block_height,  \* find_block's running index
    block_info,    \* the BlockInfo of the current iteration
    block,         \* the Block of the current iteration
    tx_data_len,   \* the bound of the tx_data range as the last call of
                   \* Block::from_raw_bytes evaluated it: <<>> or <<u32>>
    pc,            \* position in find_block
    outcome,       \* "Running", "Found", "NotFound", "NetworkMismatch", "Panic"
    panic_msg,     \* the message of the panic, "" when there is none
    output         \* what log printed: a sequence of (BlockInfo, Block) pairs

vars == <<file, raw_bytes, height, block_height, block_info, block,
          tx_data_len, pc, outcome, panic_msg, output>>

---------------------------------------------------------------------------
(* Bounds of the checked inputs. *)

MaxRecords == 2

MaxHeight == 2

---------------------------------------------------------------------------
(* src/util/constant.rs *)

MAINNET_HEX == <<"f", "9", "b", "e", "b", "4", "d", "9">>

MAGIC_BYTES == 4

BLOCK_SIZE == 4

BLOCK_HEADER == 80

TX_COUNT == 4

BLOCK_HEADER_VERSION == 4

PREVIOUS_BLOCK_HEADER_HASH == 32

MERKLE_ROOT_HASH == 32

UNIX_EPOCH_TIME == 4

TARGET == 4

NONCE == 4

---------------------------------------------------------------------------
(* Vec<u8> and the conversions of the hex crate and of u32. *)

\* Vec::reverse
Reverse(v) == [i \in 1..Len(v) |-> v[Len(v) + 1 - i]]

\* (0..n).map(|_| v.pop().expect(..)) runs to its end iff v holds n bytes
CanPop(v, n) == Len(v) >= n

\* (0..n).map(|_| v.pop().expect(..)).collect::<Vec<u8>>(), when k bytes
\* have been popped from v before: the n bytes in the order they are popped,
\* the last byte left in v first
Popped(v, k, n) == [i \in 1..n |-> v[Len(v) + 1 - k - i]]

\* the bytes are read but left in place
Remaining_peek(v, n) == v

\* v after n calls of Vec::pop in all
Remaining(v, n) == SubSeq(v, 1, Len(v) - n)

\* v after a run of pops that panicked: every byte it held was popped
Drained(v) == SubSeq(v, 1, 0)

HexDigits == <<"0", "1", "2", "3", "4", "5", "6", "7",
               "8", "9", "a", "b", "c", "d", "e", "f">>

\* ToHex::encode_hex::<String>: two lowercase digits per byte, high nibble first
encode_hex(bytes) ==
    [i \in 1..(2 * Len(bytes)) |->
        IF i % 2 = 1 THEN HexDigits[(bytes[(i + 1) \div 2] \div 16) + 1]
                     ELSE HexDigits[(bytes[i \div 2] % 16) + 1]]

HexValue(c) == (CHOOSE d \in 1..16 : HexDigits[d] = c) - 1

\* u32::from_str_radix(s, 16): the digits are folded in from the first, the
\* most significant, to the last; parsed[k] is the value of the first k
from_str_radix_16(s) ==
    LET parsed[k \in 0..Len(s)] ==
            IF k = 0 THEN 0 ELSE 16 * parsed[k - 1] + HexValue(s[k])
    IN  parsed[Len(s)]

\* a u32 as two 16-bit limbs
U32(n) == [hi |-> n \div 65536, lo |-> n % 65536]

\* a - b on u32 without overflow checks (a, b < 2^31): wraps modulo 2^32
wrapping_sub(a, b) ==
    IF a >= b THEN U32(a - b)
    ELSE [hi |-> 65535 - ((b - a - 1) \div 65536),
          lo |-> 65535 - ((b - a - 1) % 65536)]

\* whether v holds at least n bytes, n a u32 in limbs
CanPopU32(v, n) == n.hi < 32768 /\ CanPop(v, n.hi * 65536 + n.lo)

---------------------------------------------------------------------------
(* BlockInfo *)

NoInfo == [height |-> 0, magic_bytes |-> <<>>, size |-> <<>>]

BlockInfo_new(h, magic_bytes, size) ==
    [height |-> h, magic_bytes |-> magic_bytes, size |-> size]

\* the size bytes parsed without the reversal
size_as_u32_no_rev(bi) == from_str_radix_16(encode_hex(bi.size))

size_as_u32(bi) == from_str_radix_16(encode_hex(Reverse(bi.size)))

network_hex(bi) == encode_hex(bi.magic_bytes)

\* only the first three bytes of the network id are compared
validate_network_prefix(bi) ==
    SubSeq(network_hex(bi), 1, 6) = SubSeq(MAINNET_HEX, 1, 6)

\* TRUE for Ok(()), FALSE for the "network validation failed" error
validate_network(bi) == network_hex(bi) = MAINNET_HEX

---------------------------------------------------------------------------
(* BlockHeader *)

NoHeader == [version |-> <<>>, previous_block_header_hash |-> <<>>,
             merkle_root_hash |-> <<>>, unix_epoch_time |-> <<>>,
             target |-> <<>>, nonce |-> <<>>]

\* BlockHeader::from_raw_bytes pops each field from the end of the 80 bytes
BlockHeader_from_raw_bytes(raw_block_header) ==
    LET after_version == BLOCK_HEADER_VERSION
        after_previous == after_version + PREVIOUS_BLOCK_HEADER_HASH
        after_merkle == after_previous + MERKLE_ROOT_HASH
        after_time == after_merkle + UNIX_EPOCH_TIME
        after_target == after_time + TARGET
    IN  [version |->
            Popped(raw_block_header, 0, BLOCK_HEADER_VERSION),
         previous_block_header_hash |->
            Popped(raw_block_header, after_version, PREVIOUS_BLOCK_HEADER_HASH),
         merkle_root_hash |->
            Popped(raw_block_header, after_previous, MERKLE_ROOT_HASH),
         unix_epoch_time |->
            Popped(raw_block_header, after_merkle, UNIX_EPOCH_TIME),
         target |->
            Popped(raw_block_header, after_time, TARGET),
         nonce |->
            Popped(raw_block_header, after_target, NONCE)]

version(bh) == from_str_radix_16(encode_hex(bh.version))

previous_block_header_hash(bh) == encode_hex(bh.previous_block_header_hash)

merkle_root_hash(bh) == encode_hex(bh.merkle_root_hash)

unix_epoch_time(bh) == from_str_radix_16(encode_hex(bh.unix_epoch_time))

target(bh) == from_str_radix_16(encode_hex(bh.target))

nonce(bh) == from_str_radix_16(encode_hex(bh.nonce))

---------------------------------------------------------------------------
(* Block *)

NoBlock == [block_header |-> NoHeader, tx_count |-> <<>>, tx_data |-> <<>>]

Block_new(block_header, txc, txd) ==
    [block_header |-> block_header, tx_count |-> txc, tx_data |-> txd]

\* the count bytes reversed before they are parsed, as the size bytes are
tx_count_rev(b) == from_str_radix_16(encode_hex(Reverse(b.tx_count)))

tx_count(b) == from_str_radix_16(encode_hex(b.tx_count))

\* the entry count is left out of what the payload length covers
tx_data_range_no_count(block_size) == wrapping_sub(block_size, BLOCK_HEADER)

\* block_size - (BLOCK_HEADER + TX_COUNT), where the build does not check overflow
tx_data_range(block_size) == wrapping_sub(block_size, BLOCK_HEADER + TX_COUNT)

---------------------------------------------------------------------------
(* The input: the content of blk00000.dat. *)

\* the first 8 bytes of blk00000.dat
TestFraming == <<249, 190, 180, 217, 29, 1, 0, 0>>

MainnetMagic == SubSeq(TestFraming, 1, 4)

\* network ids that are not the main network's
OtherMagics == { <<249, 190, 180, 216>>, <<217, 180, 190, 249>>,
                 <<0, 0, 0, 0>>, <<11, 17, 9, 7>> }

\* n as the 4 bytes of a little-endian u32
LeBytes(n) == <<n % 256, (n \div 256) % 256, (n \div 65536) % 256,
                (n \div 16777216) % 256>>

\* n bytes that differ from their neighbours, each below 128
Fill(seed, n) == [i \in 1..n |-> (seed + i) % 128]

\* one record: network id, length field, then n bytes of payload
Record(magic, size, seed, n) == magic \o size \o Fill(seed, n)

Seed(j) == 37 * j

\* payload lengths of the complete records
GoodSizes == {84, 285}

RECURSIVE Records(_, _)
\* the concatenation of the complete records of sizes[1..k]
Records(sizes, k) ==
    IF k = 0 THEN <<>>
    ELSE Records(sizes, k - 1)
         \o Record(MainnetMagic, LeBytes(sizes[k]), Seed(k), sizes[k])

\* what may follow the complete records, before it is cut
TailBodies(seed) ==
    { Record(MainnetMagic, LeBytes(85), seed, 85),
      Record(MainnetMagic, <<4, 3, 2, 1>>, seed, 100),
      Record(MainnetMagic, LeBytes(83), seed, 100),
      Record(MainnetMagic, LeBytes(0), seed, 100) }
    \cup { Record(m, LeBytes(84), seed, 84) : m \in OtherMagics }

\* where the file ends within what follows
Cuts == {0, 2, 4, 6, 8, 9, 50, 88, 90, 92, 93, 108}

Tails(seed) ==
    { SubSeq(b, 1, c) : <<b, c>> \in
        { bc \in TailBodies(seed) \X Cuts : bc[2] <= Len(bc[1]) } }

---------------------------------------------------------------------------
(* find_block *)

Init ==
    /\ \E k \in 0..MaxRecords :
         \E sizes \in [1..k -> GoodSizes] :
           \E tail \in Tails(Seed(k + 1)) :
             file = Records(sizes, k) \o tail
    /\ raw_bytes = file
    /\ height \in 0..MaxHeight
    /\ block_height = 0
    /\ block_info = NoInfo
    /\ block = NoBlock
    /\ tx_data_len = <<>>
    /\ pc = "start"
    /\ outcome = "Running"
    /\ panic_msg = ""
    /\ output = <<>>

\* the process aborts with a panic
Panic(msg, rest) ==
    /\ pc' = "done"
    /\ outcome' = "Panic"
    /\ panic_msg' = msg
    /\ raw_bytes' = rest

\* raw_bytes.reverse()
ReverseBytes ==
    /\ pc = "start"
    /\ raw_bytes' = Reverse(raw_bytes)
    /\ pc' = "loop"
    /\ UNCHANGED <<file, height, block_height, block_info, block,
                   tx_data_len, outcome, panic_msg, output>>

\* a remainder too short for a framing unit is taken for the end of the file
is_empty_short(v) == Len(v) < MAGIC_BYTES + BLOCK_SIZE

\* Vec::is_empty
is_empty(v) == Len(v) = 0

\* while !raw_bytes.is_empty() { .. }  Err(anyhow!("failed to find block"))
LoopCheck ==
    /\ pc = "loop"
    /\ IF is_empty(raw_bytes)
       THEN /\ pc' = "done"
            /\ outcome' = "NotFound"
       ELSE /\ pc' = "info"
            /\ outcome' = outcome
    /\ UNCHANGED <<file, raw_bytes, height, block_height, block_info, block,
                   tx_data_len, panic_msg, output>>

\* let block_info = BlockInfo::from_raw_bytes(&mut raw_bytes, block_height);
ReadBlockInfo ==
    /\ pc = "info"
    /\ IF ~CanPop(raw_bytes, MAGIC_BYTES)
       THEN /\ Panic("expected a value for magic_bytes", Drained(raw_bytes))
            /\ UNCHANGED block_info
       ELSE IF ~CanPop(raw_bytes, MAGIC_BYTES + BLOCK_SIZE)
       THEN /\ Panic("expected a value for size", Drained(raw_bytes))
            /\ UNCHANGED block_info
       ELSE /\ block_info' = BlockInfo_new(block_height,
                                           Popped(raw_bytes, 0, MAGIC_BYTES),
                                           Popped(raw_bytes, MAGIC_BYTES, BLOCK_SIZE))
            /\ raw_bytes' = Remaining(raw_bytes, MAGIC_BYTES + BLOCK_SIZE)
            /\ pc' = "validate"
            /\ UNCHANGED <<outcome, panic_msg>>
    /\ UNCHANGED <<file, height, block_height, block, tx_data_len, output>>

\* block_info.validate_network()?;
ValidateNetwork ==
    /\ pc = "validate"
    /\ IF validate_network(block_info)
       THEN /\ pc' = "block"
            /\ outcome' = outcome
       ELSE /\ pc' = "done"
            /\ outcome' = "NetworkMismatch"
    /\ UNCHANGED <<file, raw_bytes, height, block_height, block_info, block,
                   tx_data_len, panic_msg, output>>

\* let block = Block::from_raw_bytes(&mut raw_bytes, block_info.size_as_u32());
\* block_size - (BLOCK_HEADER + TX_COUNT) is a u32 subtraction: it panics when
\* the build checks overflow and wraps when it does not.
ReadBlock ==
    /\ pc = "block"
    /\ \E overflow_checks \in BOOLEAN, block_size \in {size_as_u32(block_info)} :
         LET fixed == BLOCK_HEADER + TX_COUNT
             n == tx_data_range(block_size)
             len == n.hi * 65536 + n.lo
         IN  IF ~CanPop(raw_bytes, BLOCK_HEADER)
             THEN /\ Panic("expected a value for block_header", Drained(raw_bytes))
                  /\ tx_data_len' = <<>>
                  /\ UNCHANGED block
             ELSE IF ~CanPop(raw_bytes, fixed)
             THEN /\ Panic("expected a value for tx_count", Drained(raw_bytes))
                  /\ tx_data_len' = <<>>
                  /\ UNCHANGED block
             ELSE IF overflow_checks /\ block_size < fixed
             THEN /\ Panic("attempt to subtract with overflow",
                           Remaining(raw_bytes, fixed))
                  /\ tx_data_len' = <<>>
                  /\ UNCHANGED block
             ELSE IF ~CanPopU32(Remaining(raw_bytes, fixed), n)
             THEN /\ Panic("expected a value for tx_data", Drained(raw_bytes))
                  /\ tx_data_len' = <<n>>
                  /\ UNCHANGED block
             ELSE /\ \E raw_block_header \in {Popped(raw_bytes, 0, BLOCK_HEADER)} :
                       block' = Block_new(
                           BlockHeader_from_raw_bytes(raw_block_header),
                           Popped(raw_bytes, BLOCK_HEADER, TX_COUNT),
                           Popped(raw_bytes, fixed, len))
                  /\ tx_data_len' = <<n>>
                  /\ raw_bytes' = Remaining(raw_bytes, fixed + len)
                  /\ pc' = "compare"
                  /\ UNCHANGED <<outcome, panic_msg>>
    /\ UNCHANGED <<file, height, block_height, block_info, output>>

\* the index is compared one off
height_matches_off_by_one(bi, h) == bi.height + 1 = h

\* block_info.height == height
height_matches(bi, h) == bi.height = h

\* the match is logged but the scan goes on
CompareHeight_no_return ==
    /\ pc = "compare"
    /\ IF height_matches(block_info, height)
       THEN output' = Append(output, [block_info |-> block_info, block |-> block])
       ELSE output' = output
    /\ block_height' = block_height + 1
    /\ pc' = "loop"
    /\ UNCHANGED <<file, raw_bytes, height, block_info, block, tx_data_len,
                   outcome, panic_msg>>

\* if block_info.height == height { return Ok(log(block_info, block)); }
\* block_height += 1;
CompareHeight ==
    /\ pc = "compare"
    /\ IF height_matches(block_info, height)
       THEN /\ output' = Append(output, [block_info |-> block_info, block |-> block])
            /\ pc' = "done"
            /\ outcome' = "Found"
            /\ UNCHANGED block_height
       ELSE /\ block_height' = block_height + 1
            /\ pc' = "loop"
            /\ UNCHANGED <<output, outcome>>
    /\ UNCHANGED <<file, raw_bytes, height, block_info, block, tx_data_len,
                   panic_msg>>

Next ==
    \/ ReverseBytes
    \/ LoopCheck
    \/ ReadBlockInfo
    \/ ValidateNetwork
    \/ ReadBlock
    \/ CompareHeight

Spec == Init /\ [][Next]_vars

\* find_block runs to completion: no step that can be taken is put off forever
FairSpec == Spec /\ WF_vars(Next)

---------------------------------------------------------------------------
(* The file format, read from the file itself: offsets count from 0. *)

Slice(o, n) == SubSeq(file, o + 1, o + n)

\* the unsigned little-endian value of the 4 bytes at offset o
LE32At(o) ==
    file[o + 1] + 256 * file[o + 2] + 65536 * file[o + 3] + 16777216 * file[o + 4]

\* the unsigned value of the 4 bytes at offset o, first byte most significant
BE32At(o) ==
    16777216 * file[o + 1] + 65536 * file[o + 2] + 256 * file[o + 3] + file[o + 4]

\* a well-formed record starts at offset o and lies within the file
WellFormedAt(o) ==
    /\ o + 8 <= Len(file)
    /\ Slice(o, 4) = MainnetMagic
    /\ LE32At(o + 4) >= 84
    /\ o + 8 + LE32At(o + 4) <= Len(file)

RECURSIVE LeadingRecords(_)
\* how many well-formed records follow one another from offset o on
LeadingRecords(o) ==
    IF WellFormedAt(o) THEN 1 + LeadingRecords(o + 8 + LE32At(o + 4)) ELSE 0

NumRecords == LeadingRecords(0)

RECURSIVE RecordOffset(_)
\* where record i starts, for i <= NumRecords
RecordOffset(i) ==
    IF i = 0 THEN 0
    ELSE RecordOffset(i - 1) + 8 + LE32At(RecordOffset(i - 1) + 4)

\* where the leading well-formed records end
EndOfRecords == RecordOffset(NumRecords)

\* the whole file is a concatenation of well-formed records
WholeFileWellFormed == EndOfRecords = Len(file)

\* the number of bytes popped so far
Consumed == Len(file) - Len(raw_bytes)

BagOf(s) ==
    [b \in {s[i] : i \in 1..Len(s)} |-> Cardinality({i \in 1..Len(s) : s[i] = b})]

HeaderBytes(bh) ==
    bh.version \o bh.previous_block_header_hash \o bh.merkle_root_hash
    \o bh.unix_epoch_time \o bh.target \o bh.nonce

\* e, a logged pair, is record i of the file: its index, its framing unit,
\* its length and its payload bytes
EmittedIs(e, i) ==
    LET o == RecordOffset(i)
        N == LE32At(o + 4)
    IN  /\ e.block_info.height = i
        /\ e.block_info.magic_bytes = Slice(o, 4)
        /\ e.block_info.size = Slice(o + 4, 4)
        /\ size_as_u32(e.block_info) = N
        /\ BagOf(HeaderBytes(e.block.block_header)) = BagOf(Slice(o + 8, 80))
        /\ e.block.tx_count = Slice(o + 88, 4)
        /\ e.block.tx_data = Slice(o + 92, N - 84)

\* the run ended in one of the process's panics (a pop from the emptied
\* vector, or the overflow check): the code's way of failing for want of data
InsufficientData == outcome = "Panic"

---------------------------------------------------------------------------
(* C1: on a file that is exactly k well-formed records, a request for      *)
(* height h < k ends Found and logs exactly record h (index h, its length  *)
(* and its bytes); a request for h >= k ends NotFound and logs nothing.    *)
C1_FindsRecordAtHeight ==
    (pc = "done" /\ WholeFileWellFormed) =>
        IF height < NumRecords
        THEN /\ outcome = "Found"
             /\ Len(output) = 1
             /\ EmittedIs(output[1], height)
        ELSE /\ outcome = "NotFound"
             /\ output = <<>>

C1_Witness ==
    /\ pc = "done"
    /\ WholeFileWellFormed
    /\ NumRecords = 2
    /\ height = 1
    /\ outcome = "Found"
    /\ Len(output) = 1
    /\ output[1].block_info.height = 1

---------------------------------------------------------------------------
\* the file is NumRecords well-formed records followed by the beginning of
\* one more well-formed record, cut short inside it
EndsInsideRecord ==
    LET o == EndOfRecords
        rem == Len(file) - o
    IN  /\ rem > 0
        /\ \A i \in 1..4 : i <= rem => file[o + i] = MainnetMagic[i]
        /\ rem >= 8 => (LE32At(o + 4) >= 84 /\ rem < 8 + LE32At(o + 4))

\* the panic of the field the file ends in
ShortFieldPanic ==
    LET rem == Len(file) - EndOfRecords
    IN  IF rem < 4 THEN "expected a value for magic_bytes"
        ELSE IF rem < 8 THEN "expected a value for size"
        ELSE IF rem < 88 THEN "expected a value for block_header"
        ELSE IF rem < 92 THEN "expected a value for tx_count"
        ELSE "expected a value for tx_data"

\* every decoded field has its full width
FullWidth(bi, b) ==
    /\ Len(bi.magic_bytes) = 4
    /\ Len(bi.size) = 4
    /\ Len(b.block_header.version) = 4
    /\ Len(b.block_header.previous_block_header_hash) = 32
    /\ Len(b.block_header.merkle_root_hash) = 32
    /\ Len(b.block_header.unix_epoch_time) = 4
    /\ Len(b.block_header.target) = 4
    /\ Len(b.block_header.nonce) = 4
    /\ Len(b.tx_count) = 4
    /\ Len(b.tx_data) = size_as_u32(bi) - 84

(* C2: a file that ends inside a field of a record whose index is at most   *)
(* the requested height (network id, length, header block, entry count or   *)
(* payload) ends the run in the panic of that field's read: never Found,    *)
(* never NotFound, nothing logged; and no decoded record has a short field. *)
C2_TruncationIsInsufficientData ==
    /\ (pc = "done" /\ EndsInsideRecord /\ NumRecords <= height) =>
          /\ InsufficientData
          /\ panic_msg = ShortFieldPanic
          /\ output = <<>>
    /\ pc = "compare" => FullWidth(block_info, block)
    /\ \A i \in 1..Len(output) : FullWidth(output[i].block_info, output[i].block)

C2_Witness ==
    /\ pc = "done"
    /\ EndsInsideRecord
    /\ NumRecords = 1
    /\ height = 1
    /\ Len(file) - EndOfRecords = 90
    /\ outcome = "Panic"
    /\ panic_msg = "expected a value for tx_count"

---------------------------------------------------------------------------
(* C3: validate_network accepts a framing unit iff its 4 network-id bytes,  *)
(* in file order, are F9 BE B4 D9; and the first record, of index at most   *)
(* the requested height, whose complete framing unit carries another id     *)
(* ends the run in NetworkMismatch with exactly its 8 framing bytes         *)
(* consumed and nothing logged.                                             *)
C3_NetworkValidation ==
    /\ pc = "validate" =>
          (validate_network(block_info) <=> Slice(Consumed - 8, 4) = MainnetMagic)
    /\ (/\ pc = "done"
        /\ NumRecords <= height
        /\ EndOfRecords + 8 <= Len(file)
        /\ Slice(EndOfRecords, 4) # MainnetMagic) =>
          /\ outcome = "NetworkMismatch"
          /\ Consumed = EndOfRecords + 8
          /\ output = <<>>
    /\ outcome = "NetworkMismatch" =>
          /\ Slice(EndOfRecords, 4) # MainnetMagic
          /\ Consumed = EndOfRecords + 8
          /\ block_info.height = NumRecords
          /\ output = <<>>

C3_Witness ==
    /\ pc = "done"
    /\ outcome = "NetworkMismatch"
    /\ NumRecords = 1
    /\ height = 2
    /\ Slice(EndOfRecords, 4) = <<249, 190, 180, 216>>
    /\ Len(raw_bytes) = 84
    /\ output = <<>>

---------------------------------------------------------------------------
(* C4: the decoded payload length is the unsigned little-endian value of    *)
(* the 4 length bytes in file order, b0 + 256 b1 + 65536 b2 + 16777216 b3,  *)
(* so its little-endian bytes are the length bytes again; and the framing   *)
(* unit F9 BE B4 D9 1D 01 00 00 decodes to 285.                             *)
C4_SizeIsLittleEndian ==
    pc = "validate" =>
        LET o == Consumed - 8
        IN  /\ block_info.size = Slice(o + 4, 4)
            /\ size_as_u32(block_info) = LE32At(o + 4)
            /\ LeBytes(size_as_u32(block_info)) = Slice(o + 4, 4)
            /\ Slice(o, 8) = TestFraming => size_as_u32(block_info) = 285

C4_Witness ==
    /\ pc = "validate"
    /\ block_info.height = 0
    /\ Slice(0, 8) = TestFraming
    /\ validate_network(block_info)
    /\ size_as_u32(block_info) = 285

---------------------------------------------------------------------------
(* C5: the header fields are the 80 header bytes p taken front to back:     *)
(* version = little-endian p[0..3], previous_hash = hex of p[4..35],        *)
(* merkle_root = hex of p[36..67], timestamp = little-endian p[68..71],     *)
(* target = little-endian p[72..75], nonce = little-endian p[76..79].       *)
C5_HeaderFieldsInLayoutOrder ==
    pc = "compare" =>
        LET p == RecordOffset(block_height) + 8
            bh == block.block_header
        IN  /\ version(bh) = LE32At(p)
            /\ previous_block_header_hash(bh) = encode_hex(Slice(p + 4, 32))
            /\ merkle_root_hash(bh) = encode_hex(Slice(p + 36, 32))
            /\ unix_epoch_time(bh) = LE32At(p + 68)
            /\ target(bh) = LE32At(p + 72)
            /\ nonce(bh) = LE32At(p + 76)

\* what BlockHeader::from_raw_bytes yields instead: the 80 bytes taken back
\* to front, so the fields come out in the reverse of the layout order
HeaderFieldsBackToFront ==
    pc = "compare" =>
        LET p == RecordOffset(block_height) + 8
            bh == block.block_header
        IN  /\ version(bh) = LE32At(p + 76)
            /\ previous_block_header_hash(bh) = encode_hex(Reverse(Slice(p + 44, 32)))
            /\ merkle_root_hash(bh) = encode_hex(Reverse(Slice(p + 12, 32)))
            /\ unix_epoch_time(bh) = LE32At(p + 8)
            /\ target(bh) = LE32At(p + 4)
            /\ nonce(bh) = LE32At(p)

---------------------------------------------------------------------------
(* C6: a record with a valid network id and a payload length below 84 ends *)
(* the run for want of data, with the subtraction N - 84 neither wrapping   *)
(* nor yielding a payload size, and nothing decoded or logged.              *)
C6_ShortLengthIsGuarded ==
    (/\ pc = "done"
     /\ block_info # NoInfo
     /\ validate_network(block_info)
     /\ size_as_u32(block_info) < 84) =>
        /\ InsufficientData
        /\ tx_data_len = <<>>
        /\ output = <<>>

---------------------------------------------------------------------------
(* C7: the entry count is the unsigned value of the 4 bytes at payload      *)
(* offsets 80..83 in file order, the first byte the most significant,       *)
(* without the byte reversal applied to the length field.                   *)
C7_EntryCountNotReversed ==
    pc = "compare" =>
        LET o == RecordOffset(block_height)
        IN  /\ block.tx_count = Slice(o + 88, 4)
            /\ tx_count(block) = BE32At(o + 88)

C7_Witness ==
    /\ pc = "compare"
    /\ block_height = 1
    /\ tx_count(block) = BE32At(RecordOffset(1) + 88)
    /\ tx_count(block) # LE32At(RecordOffset(1) + 88)

---------------------------------------------------------------------------
\* what is left unconsumed is exactly the end of the file from offset
\* Consumed on (held reversed, the next byte last)
UnconsumedIsSuffix ==
    \A i \in 1..Len(raw_bytes) : raw_bytes[i] = file[Len(file) + 1 - i]

CursorAligned ==
    /\ pc # "start" => UnconsumedIsSuffix
    /\ pc = "loop" =>
          /\ block_height <= NumRecords
          /\ Consumed = RecordOffset(block_height)
    /\ pc = "validate" => Consumed = RecordOffset(block_height) + 8
    /\ pc = "block" => Consumed = RecordOffset(block_height) + 8
    /\ pc = "compare" =>
          /\ block_height < NumRecords
          /\ Consumed = RecordOffset(block_height + 1)
          /\ Consumed = RecordOffset(block_height) + 8 + size_as_u32(block_info)

\* a step only removes bytes from the end of raw_bytes
OnlyConsumes ==
    pc # "start" =>
        /\ Len(raw_bytes') <= Len(raw_bytes)
        /\ raw_bytes' = SubSeq(raw_bytes, 1, Len(raw_bytes'))

(* C8: at the top of the loop with running index i the unconsumed bytes are *)
(* exactly the file from offset sum_{j<i} (8 + N_j) on, i records having    *)
(* been fully decoded; each read removes exactly its width, in file order;  *)
(* the remainder never grows and no consumed byte comes back.               *)
C8_CursorAlignment == [] CursorAligned /\ [][OnlyConsumes]_vars

C8_Witness ==
    /\ pc = "loop"
    /\ block_height = 2
    /\ Consumed = RecordOffset(2)
    /\ Len(raw_bytes) > 0
    /\ UnconsumedIsSuffix

---------------------------------------------------------------------------
Outcomes == {"Found", "NotFound", "NetworkMismatch", "Panic"}

\* an iteration that reaches the comparison has consumed at least 92 bytes
\* since it started, at offset RecordOffset(block_height)
IterationShrinks ==
    /\ pc = "loop" => Consumed = RecordOffset(block_height)
    /\ pc = "compare" => Consumed - RecordOffset(block_height) >= 92

(* C9: on every file and for every height find_block terminates, in exactly *)
(* one of Found, NotFound, NetworkMismatch or a panic for want of data, and *)
(* every iteration that does not end the run shortens the remainder by at   *)
(* least 92 bytes.                                                          *)
C9_Terminates ==
    /\ <>(pc = "done")
    /\ [](pc = "done" <=> outcome \in Outcomes)
    /\ [](pc # "done" => outcome = "Running")
    /\ [][pc = "done" => pc' = "done" /\ outcome' = outcome]_vars
    /\ []IterationShrinks

C9_Witness ==
    /\ pc = "done"
    /\ outcome = "NotFound"
    /\ block_height = 2
    /\ Consumed >= 184
    /\ Len(raw_bytes) = 0

---------------------------------------------------------------------------
(* C10: when records 0..h are well-formed, the run ends Found with record h *)
(* logged and exactly the bytes of records 0..h consumed: nothing after     *)
(* record h is read, so what follows it cannot change the outcome.          *)
C10_StopsAtMatch ==
    NumRecords > height =>
        /\ Consumed <= RecordOffset(height + 1)
        /\ outcome \in {"Running", "Found"}
        /\ pc = "done" =>
              /\ outcome = "Found"
              /\ Len(output) = 1
              /\ EmittedIs(output[1], height)
              /\ Consumed = RecordOffset(height + 1)
              /\ UnconsumedIsSuffix

C10_Witness ==
    /\ pc = "done"
    /\ outcome = "Found"
    /\ height = 1
    /\ NumRecords = 2
    /\ Len(raw_bytes) = 50
    /\ Slice(EndOfRecords, 4) = <<0, 0, 0, 0>>

=============================================================================
